---- MODULE Spec2Model ----
(***************************************************************************)
(* DBSCANvas: dominant-colour extraction.  One run of the script body      *)
(* (src/DBSCANvas.py:77-128) on an uploaded image: run_dbscan clusters the  *)
(* pixels, summarises every cluster, sorts the summaries by count, and the  *)
(* main loop filters them by percentage and renders the cards.              *)
(*                                                                         *)
(* Numbers.  A pixel channel is k/255 with k in 0..255; the model keeps k.  *)
(* eps is kept in hundredths (the slider's step), min_percentage in tenths  *)
(* of a percent (the slider's step).  A mean of channels is kept as the sum *)
(* of the k's of its members, next to the member count (mean = sum/count).  *)
(* All comparisons are done exactly, by cross-multiplication.               *)
(***************************************************************************)
EXTENDS Integers, Sequences, FiniteSets, TLC

\* Largest number of pixels of an image (the real images have >= 100*100).
MaxPoints == 4

\* Largest min_samples tried; 0 is the invalid value.
MaxMinSamples == 3

\* Largest number of pixels of an image of the dense runs.
DensePoints == 5

\* min_samples of the dense runs.
DenseMinSamples == 4

\* The slider's default min_percentage, 0.5 %, in tenths of a percent.
DefaultMinPercentage == 5

\* The label sklearn gives to noise, removed at src/DBSCANvas.py:49.
NOISE == -1

\* Pixel values (r, g, b) an image is made of.  At eps = 0.02 the first two
\* are each within eps of the last three and of nothing else.
Colours == { <<0, 0, 0>>, <<3, 3, 3>>, <<5, 0, 0>>, <<0, 5, 0>>, <<0, 0, 5>> }

\* Values of eps (hundredths) handed to run_dbscan: 0.00, which fit rejects,
\* and 0.02.  The slider of line 63 offers 0.01 to 0.30; run_dbscan takes any.
EpsChoices == {0, 2}

\* Values of min_samples handed to run_dbscan; fit rejects 0.  The slider of
\* line 64 offers 10 to 500 for images of 10000 pixels and more; the images
\* here are a few pixels, and so are the values.
MinSamplesChoices == 0..MaxMinSamples

\* Values of min_percentage (tenths of a percent): 0.5 %, the default of the
\* slider of line 68, and 50 %, which hides clusters of the few-pixel images
\* as a few percent hide clusters of the real ones.
MinPercentageChoices == {5, 500}

VARIABLES
    pixels,          \* the N x 3 array of line 92, a sequence of triples
    eps,             \* line 63
    min_samples,     \* line 64
    min_percentage,  \* line 68
    pc,              \* position of the run
    labels,          \* db.labels_, <<>> until fit allocates it
    scan,            \* index of the outer loop of the clustering
    cur,             \* point being expanded, 0 when none
    stack,           \* expansion frontier
    label_num,       \* next cluster id
    todo,            \* labels of unique_labels not yet iterated (line 52)
    results,         \* the list of line 50
    color_counts,    \* the value run_dbscan returned (line 95)
    fidx,            \* position of the loop of line 103 in color_counts
    emitted,         \* the cards rendered (lines 107-120), in order
    notices          \* the other widgets rendered, in order

vars == << pixels, eps, min_samples, min_percentage, pc, labels, scan, cur,
           stack, label_num, todo, results, color_counts, fidx, emitted,
           notices >>

----------------------------------------------------------------------------
(* Helpers *)

SeqsUpTo(S, n) == UNION { [1..k -> S] : k \in 1..n }

Last(s) == s[Len(s)]

Front(s) == SubSeq(s, 1, Len(s) - 1)

RECURSIVE SumOver(_, _)
SumOver(S, f) ==
    IF S = {} THEN 0
    ELSE LET x == CHOOSE y \in S : TRUE IN f[x] + SumOver(S \ {x}, f)

\* The elements of a set of integers as an ascending sequence.
RECURSIVE Ascending(_)
Ascending(S) ==
    IF S = {} THEN << >>
    ELSE LET m == CHOOSE x \in S : \A y \in S : x <= y
         IN << m >> \o Ascending(S \ {m})

----------------------------------------------------------------------------
(* The clustering: DBSCAN(eps=eps, min_samples=min_samples).fit(pixels) of    *)
(* line 45, the scikit-learn estimator.  fit validates the parameters, finds *)
(* the eps-neighbourhood of every sample (the sample itself included,        *)
(* distance <= eps), marks the samples with at least min_samples neighbours  *)
(* as core, and labels the samples in index order: an unlabelled core sample *)
(* opens the next cluster id, which is spread over a stack of samples still  *)
(* labelled -1.                                                              *)

Dist2(p, q) ==
    (p[1] - q[1]) * (p[1] - q[1]) + (p[2] - q[2]) * (p[2] - q[2])
        + (p[3] - q[3]) * (p[3] - q[3])

\* Euclidean distance of p/255 and q/255 is <= e/100.
WithinEps(p, q, e) == 10000 * Dist2(p, q) <= 65025 * e * e

Neighborhood(px, e, i) == { j \in 1..Len(px) : WithinEps(px[i], px[j], e) }

IsCore(px, e, m, i) == Cardinality(Neighborhood(px, e, i)) >= m

\* Faulty variant: only eps is validated.
ValidParamsEpsOnly(e, m) == e > 0

\* Parameter validation of fit: eps in (0, inf), min_samples in [1, inf).
ValidParams(e, m) == e > 0 /\ m >= 1


\* Faulty variant: a cluster is started at any unlabelled point.
SeedsClusterAtAnyPoint(lab, px, e, m, i) == lab[i] = NOISE

\* The outer loop of the clustering starts a cluster at point i: i is still
\* unlabelled and is a core point.
SeedsCluster(lab, px, e, m, i) == lab[i] = NOISE /\ IsCore(px, e, m, i)

\* Faulty variant: only the neighbours behind point i are looked at.
UnlabelledNeighboursBehind(lab, px, e, i) ==
    Ascending({ j \in Neighborhood(px, e, i) : lab[j] = NOISE /\ j > i })

\* The still unlabelled neighbours of point i, in index order.
UnlabelledNeighbours(lab, px, e, i) ==
    Ascending({ j \in Neighborhood(px, e, i) : lab[j] = NOISE })

\* Faulty variant: the expansion goes on through points that are not core.
VisitThroughBorder(lab, stk, px, e, m, i, k) ==
    IF lab[i] = NOISE
    THEN LET lab1 == [lab EXCEPT ![i] = k]
         IN [ labels |-> lab1,
              stack  |-> stk \o UnlabelledNeighbours(lab1, px, e, i) ]
    ELSE [ labels |-> lab, stack |-> stk ]

\* Faulty variant: a point of another cluster is taken over like an unlabelled one.
VisitSteals(lab, stk, px, e, m, i, k) ==
    IF lab[i] # k
    THEN LET lab1 == [lab EXCEPT ![i] = k]
         IN [ labels |-> lab1,
              stack  |-> IF IsCore(px, e, m, i)
                         THEN stk \o Ascending({ j \in Neighborhood(px, e, i) :
                                                    lab1[j] # k })
                         ELSE stk ]
    ELSE [ labels |-> lab, stack |-> stk ]

\* One visit of the expansion of cluster k at point i: an unlabelled point
\* takes the id k, and when it is a core point its unlabelled neighbours join
\* the frontier; a labelled point is left as it is.
Visit(lab, stk, px, e, m, i, k) ==
    IF lab[i] = NOISE
    THEN LET lab1 == [lab EXCEPT ![i] = k]
         IN [ labels |-> lab1,
              stack  |-> IF IsCore(px, e, m, i)
                         THEN stk \o UnlabelledNeighbours(lab1, px, e, i)
                         ELSE stk ]
    ELSE [ labels |-> lab, stack |-> stk ]

\* str(e) of the exception fit raises on invalid parameters.
InvalidParamMessage(e, m) ==
    IF e <= 0 THEN "eps must be in (0, inf)" ELSE "min_samples must be in [1, inf)"

----------------------------------------------------------------------------
(* Aggregation and ranking: run_dbscan, lines 49-59 *)

\* Faulty variant: the noise label is not removed.
UniqueLabelsKeepsNoise(lab) == { lab[i] : i \in 1..Len(lab) }

\* line 49
UniqueLabels(lab) == { lab[i] : i \in 1..Len(lab) } \ {NOISE}

\* line 53
Mask(lab, k) == { i \in 1..Len(lab) : lab[i] = k }

\* Faulty variant: the length of the mask instead of the number of its true entries.
CountOfWholeMask(lab, k) == Len(lab)

\* line 54
CountOf(lab, k) == Cardinality(Mask(lab, k))

\* line 55: the per-channel mean, kept as the per-channel sum over the members
\* (the mean is this sum divided by the count, in units of 1/255).
MeanOf(px, lab, k) ==
    [ c \in 1..3 |-> SumOver(Mask(lab, k), [ i \in 1..Len(px) |-> px[i][c] ]) ]

\* line 56: the tuple appended to results; label records which k produced it.
Summary(px, lab, k) ==
    [ count |-> CountOf(lab, k), avg_color |-> MeanOf(px, lab, k), label |-> k ]

\* Insertion of x into s, sorted by descending count, behind its equals.
InsertByCount(s, x) ==
    LET pos == Cardinality({ i \in 1..Len(s) : s[i].count >= x.count })
    IN SubSeq(s, 1, pos) \o << x >> \o SubSeq(s, pos + 1, Len(s))

RECURSIVE SortedPrefix(_, _)
SortedPrefix(res, n) ==
    IF n = 0 THEN << >> ELSE InsertByCount(SortedPrefix(res, n - 1), res[n])

\* Faulty variant: an ascending sort, reversed: equal counts come out in reverse.
RECURSIVE SortedPrefixTiesReversed(_, _)
SortedPrefixTiesReversed(res, n) ==
    IF n = 0 THEN << >>
    ELSE LET s == SortedPrefixTiesReversed(res, n - 1)
             pos == Cardinality({ i \in 1..Len(s) : s[i].count > res[n].count })
         IN SubSeq(s, 1, pos) \o << res[n] >> \o SubSeq(s, pos + 1, Len(s))

SortedByCountTiesReversed(res) == SortedPrefixTiesReversed(res, Len(res))

\* line 59: sorted(results, key=lambda x: x[0], reverse=True), a stable sort.
SortedByCount(res) == SortedPrefix(res, Len(res))

----------------------------------------------------------------------------
(* Filtering and rendering: main interface logic, lines 96-128 *)

\* Faulty variant: the pixels that ended in a cluster instead of all the pixels.
TotalPixelsInClusters(px) ==
    SumOver(1..Len(color_counts),
            [ j \in 1..Len(color_counts) |-> color_counts[j].count ])

\* line 96
TotalPixels(px) == Len(px)

\* line 104, as the exact fraction <<numerator, denominator>>.
Pct(count, total) == << 100 * count, total >>

\* line 105: pct < min_percentage (min_percentage in tenths of a percent).
BelowMin(pct, minp) == 10 * pct[1] < minp * pct[2]

\* line 107: int(c * 255) for each channel of the mean.
Rgb(summary) == [ c \in 1..3 |-> summary.avg_color[c] \div summary.count ]

\* lines 107-119
Card(summary, pct) == [ count |-> summary.count, rgb |-> Rgb(summary), pct |-> pct ]

\* line 99
FoundHeader(n) ==
    [ widget |-> "markdown", text |-> "Found {n} Colors", n |-> n, detail |-> "" ]

\* line 123
HiddenWarning ==
    [ widget |-> "warning", n |-> 0, detail |-> "",
      text |-> "Colors found but hidden due to 'Min Show %' setting." ]

\* line 128: f"Error: {str(e)}", the text of the exception kept in detail.
ExceptionError(msg) ==
    [ widget |-> "error", text |-> "Error: {str(e)}", n |-> 0, detail |-> msg ]

\* Faulty variant: finding no cluster is raised and rendered as an exception.
NoClustersRaised == ExceptionError("No clusters found. Try lowering Min Samples.")

\* line 125
NoClustersError ==
    [ widget |-> "error", n |-> 0, detail |-> "",
      text |-> "No clusters found. Try lowering Min Samples." ]

----------------------------------------------------------------------------
(* The run *)

\* An image has been uploaded and resized (line 91): pixels is never empty.
Init ==
    /\ pixels \in SeqsUpTo(Colours, MaxPoints)
    /\ eps \in EpsChoices
    /\ min_samples \in MinSamplesChoices
    /\ min_percentage \in MinPercentageChoices
    /\ pc = "start"
    /\ labels = << >>
    /\ scan = 0
    /\ cur = 0
    /\ stack = << >>
    /\ label_num = 0
    /\ todo = {}
    /\ results = << >>
    /\ color_counts = << >>
    /\ fidx = 0
    /\ emitted = << >>
    /\ notices = << >>

\* line 45 with invalid parameters: fit raises before it touches the data, the
\* exception leaves run_dbscan and is rendered at line 128.
FitRaises ==
    /\ pc = "start"
    /\ ~ValidParams(eps, min_samples)
    /\ notices' = Append(notices, ExceptionError(InvalidParamMessage(eps, min_samples)))
    /\ pc' = "done"
    /\ UNCHANGED << pixels, eps, min_samples, min_percentage, labels, scan, cur,
                    stack, label_num, todo, results, color_counts, fidx, emitted >>

\* line 45 with valid parameters: every label starts as noise.
FitStart ==
    /\ pc = "start"
    /\ ValidParams(eps, min_samples)
    /\ labels' = [ i \in 1..Len(pixels) |-> NOISE ]
    /\ scan' = 1
    /\ label_num' = 0
    /\ pc' = "scan"
    /\ UNCHANGED << pixels, eps, min_samples, min_percentage, cur, stack, todo,
                    results, color_counts, fidx, emitted, notices >>

\* The outer loop passes a point that is labelled or is no core point.
ScanSkip ==
    /\ pc = "scan"
    /\ scan <= Len(pixels)
    /\ ~SeedsCluster(labels, pixels, eps, min_samples, scan)
    /\ scan' = scan + 1
    /\ UNCHANGED << pixels, eps, min_samples, min_percentage, pc, labels, cur,
                    stack, label_num, todo, results, color_counts, fidx, emitted,
                    notices >>

\* The outer loop starts cluster label_num at an unlabelled core point.
ScanSeed ==
    /\ pc = "scan"
    /\ scan <= Len(pixels)
    /\ SeedsCluster(labels, pixels, eps, min_samples, scan)
    /\ cur' = scan
    /\ pc' = "expand"
    /\ UNCHANGED << pixels, eps, min_samples, min_percentage, labels, scan, stack,
                    label_num, todo, results, color_counts, fidx, emitted, notices >>

\* One turn of the expansion loop: visit cur, then take the next point of the
\* frontier, or close the cluster when the frontier is empty.
Expand ==
    /\ pc = "expand"
    /\ LET v == Visit(labels, stack, pixels, eps, min_samples, cur, label_num)
       IN /\ labels' = v.labels
          /\ IF v.stack = << >>
             THEN /\ label_num' = label_num + 1
                  /\ scan' = scan + 1
                  /\ cur' = 0
                  /\ stack' = << >>
                  /\ pc' = "scan"
             ELSE /\ cur' = Last(v.stack)
                  /\ stack' = Front(v.stack)
                  /\ UNCHANGED << label_num, scan, pc >>
    /\ UNCHANGED << pixels, eps, min_samples, min_percentage, todo, results,
                    color_counts, fidx, emitted, notices >>

\* The outer loop is over: lines 46-50.
FitDone ==
    /\ pc = "scan"
    /\ scan > Len(pixels)
    /\ todo' = UniqueLabels(labels)
    /\ results' = << >>
    /\ pc' = "aggregate"
    /\ UNCHANGED << pixels, eps, min_samples, min_percentage, labels, scan, cur,
                    stack, label_num, color_counts, fidx, emitted, notices >>

\* One turn of the loop of lines 52-56.  The iteration order of a set is not
\* defined by the language, so any label not yet taken may come next (CPython
\* happens to yield small non-negative ints in ascending order).
Aggregate ==
    /\ pc = "aggregate"
    /\ \E k \in todo :
          /\ results' = Append(results, Summary(pixels, labels, k))
          /\ todo' = todo \ {k}
    /\ UNCHANGED << pixels, eps, min_samples, min_percentage, pc, labels, scan,
                    cur, stack, label_num, color_counts, fidx, emitted, notices >>

\* lines 59 and 95
SortAndReturn ==
    /\ pc = "aggregate"
    /\ todo = {}
    /\ color_counts' = SortedByCount(results)
    /\ pc' = "returned"
    /\ UNCHANGED << pixels, eps, min_samples, min_percentage, labels, scan, cur,
                    stack, label_num, todo, results, fidx, emitted, notices >>

\* lines 98-102
ShowHeader ==
    /\ pc = "returned"
    /\ color_counts # << >>
    /\ notices' = Append(notices, FoundHeader(Len(color_counts)))
    /\ fidx' = 1
    /\ pc' = "filter"
    /\ UNCHANGED << pixels, eps, min_samples, min_percentage, labels, scan, cur,
                    stack, label_num, todo, results, color_counts, emitted >>

\* lines 124-125
ShowNoClusters ==
    /\ pc = "returned"
    /\ color_counts = << >>
    /\ notices' = Append(notices, NoClustersError)
    /\ pc' = "done"
    /\ UNCHANGED << pixels, eps, min_samples, min_percentage, labels, scan, cur,
                    stack, label_num, todo, results, color_counts, fidx, emitted >>

\* lines 103-105: continue
FilterSkip ==
    /\ pc = "filter"
    /\ fidx <= Len(color_counts)
    /\ BelowMin(Pct(color_counts[fidx].count, TotalPixels(pixels)), min_percentage)
    /\ fidx' = fidx + 1
    /\ UNCHANGED << pixels, eps, min_samples, min_percentage, pc, labels, scan,
                    cur, stack, label_num, todo, results, color_counts, emitted,
                    notices >>

\* lines 103-120: a card is rendered
FilterEmit ==
    /\ pc = "filter"
    /\ fidx <= Len(color_counts)
    /\ LET pct == Pct(color_counts[fidx].count, TotalPixels(pixels))
       IN /\ ~BelowMin(pct, min_percentage)
          /\ emitted' = Append(emitted, Card(color_counts[fidx], pct))
    /\ fidx' = fidx + 1
    /\ UNCHANGED << pixels, eps, min_samples, min_percentage, pc, labels, scan,
                    cur, stack, label_num, todo, results, color_counts, notices >>

\* lines 122-123: valid_count == 0
EndHidden ==
    /\ pc = "filter"
    /\ fidx > Len(color_counts)
    /\ Len(emitted) = 0
    /\ notices' = Append(notices, HiddenWarning)
    /\ pc' = "done"
    /\ UNCHANGED << pixels, eps, min_samples, min_percentage, labels, scan, cur,
                    stack, label_num, todo, results, color_counts, fidx, emitted >>

\* line 122: valid_count > 0
EndShown ==
    /\ pc = "filter"
    /\ fidx > Len(color_counts)
    /\ Len(emitted) > 0
    /\ pc' = "done"
    /\ UNCHANGED << pixels, eps, min_samples, min_percentage, labels, scan, cur,
                    stack, label_num, todo, results, color_counts, fidx, emitted,
                    notices >>

\* The dense runs: larger images under the values of min_samples from where
\* Init stops, where a border point can lie between two clusters.
InitDense ==
    /\ pixels \in SeqsUpTo(Colours, DensePoints)
    /\ eps \in EpsChoices \ {0}
    /\ min_samples \in {0} \cup (MaxMinSamples..DenseMinSamples)
    /\ min_percentage = DefaultMinPercentage
    /\ pc = "start"
    /\ labels = << >>
    /\ scan = 0
    /\ cur = 0
    /\ stack = << >>
    /\ label_num = 0
    /\ todo = {}
    /\ results = << >>
    /\ color_counts = << >>
    /\ fidx = 0
    /\ emitted = << >>
    /\ notices = << >>

Next ==
    \/ FitRaises
    \/ FitStart
    \/ ScanSkip
    \/ ScanSeed
    \/ Expand
    \/ FitDone
    \/ Aggregate
    \/ SortAndReturn
    \/ ShowHeader
    \/ ShowNoClusters
    \/ FilterSkip
    \/ FilterEmit
    \/ EndHidden
    \/ EndShown

Spec == Init /\ [][Next]_vars

\* The clustering alone: the call of line 45, up to the labels of line 46.
NextFit ==
    \/ FitRaises
    \/ FitStart
    \/ ScanSkip
    \/ ScanSeed
    \/ Expand
    \/ FitDone

SpecDense == InitDense /\ [][NextFit]_vars

----------------------------------------------------------------------------
(* Vocabulary of the properties, stated on the data alone *)

N == Len(pixels)

ParamsOk == eps > 0 /\ min_samples >= 1

\* fit has returned
Fitted == ParamsOk /\ pc \in {"aggregate", "returned", "filter", "done"}

\* run_dbscan has returned
Returned == ParamsOk /\ pc \in {"returned", "filter", "done"}

Finished == ParamsOk /\ pc = "done"

Near(i, j) ==
    10000 * ((pixels[i][1] - pixels[j][1]) * (pixels[i][1] - pixels[j][1])
             + (pixels[i][2] - pixels[j][2]) * (pixels[i][2] - pixels[j][2])
             + (pixels[i][3] - pixels[j][3]) * (pixels[i][3] - pixels[j][3]))
        <= 65025 * eps * eps

Core(i) == Cardinality({ j \in 1..N : Near(i, j) }) >= min_samples

Members(k) == { i \in 1..N : labels[i] = k }

ClusterIds == { labels[i] : i \in 1..Len(labels) } \ {-1}

NoisePoints == { i \in 1..Len(labels) : labels[i] = -1 }

ChannelSum(S, c) == SumOver(S, [ i \in 1..N |-> pixels[i][c] ])

CountSum(seq) == SumOver(1..Len(seq), [ j \in 1..Len(seq) |-> seq[j].count ])

CoreSet == { i \in 1..N : Core(i) }

\* The points of C that a chain of points of C, each within eps of the next,
\* links to a point of S.
RECURSIVE ChainReach(_, _)
ChainReach(C, S) ==
    LET T == S \cup { j \in C : \E i \in S : Near(i, j) }
    IN IF T = S THEN S ELSE ChainReach(C, T)

LexLeq(a, b) ==
    \/ a[1] < b[1]
    \/ a[1] = b[1] /\ a[2] < b[2]
    \/ a[1] = b[1] /\ a[2] = b[2] /\ a[3] <= b[3]

\* Position in results of the summary of label k.
PosInResults(k) == CHOOSE j \in 1..Len(results) : results[j].label = k

----------------------------------------------------------------------------
(* C1 *)

\* C1: after clustering there is exactly one label per input point, each label
\* is -1 or a non-negative cluster id, and run_dbscan's result holds exactly
\* one (count, centroid) summary for every distinct non-noise label and none
\* for the noise label.
C1_OneLabelOneSummary ==
    /\ Fitted =>
          /\ Len(labels) = N
          /\ \A i \in 1..N : labels[i] = -1 \/ labels[i] \in Nat
    /\ Returned =>
          /\ Len(color_counts) = Cardinality(ClusterIds)
          /\ \A j \in 1..Len(color_counts) : color_counts[j].label # -1
          /\ \A k \in ClusterIds :
                \E j \in 1..Len(color_counts) :
                   /\ color_counts[j].label = k
                   /\ color_counts[j].count = Cardinality(Members(k))
                   /\ color_counts[j].avg_color
                         = [ c \in 1..3 |-> ChannelSum(Members(k), c) ]
                   /\ \A h \in 1..Len(color_counts) :
                         color_counts[h].label = k => h = j

C1_Witness ==
    /\ Returned
    /\ NoisePoints # {}
    /\ Len(color_counts) >= 1

----------------------------------------------------------------------------
(* C2 *)

\* C2: the sum of the cluster counts of run_dbscan's result is at most the
\* number of input points, and equals it iff no point is labelled noise.
C2_CountConservation ==
    Returned =>
       /\ CountSum(color_counts) <= N
       /\ (CountSum(color_counts) = N) <=> (NoisePoints = {})

C2_Witness ==
    /\ Returned
    /\ NoisePoints # {}
    /\ CountSum(color_counts) >= 2
    /\ CountSum(color_counts) < N

----------------------------------------------------------------------------
(* C3 *)

Passes(summary) == 1000 * summary.count >= min_percentage * N

PassingIndexes == { j \in 1..Len(color_counts) : Passes(color_counts[j]) }

\* C3: the cards are emitted in non-increasing order of count, every card
\* carries percentage 100 * count / (number of input points) and that
\* percentage is >= min_percentage, and at the end every cluster whose
\* percentage is >= min_percentage has its card.
C3_RankedFiltered ==
    ParamsOk =>
       /\ \A i \in 1..Len(emitted) : \A j \in 1..Len(emitted) :
             i < j => emitted[i].count >= emitted[j].count
       /\ \A i \in 1..Len(emitted) :
             /\ emitted[i].pct = << 100 * emitted[i].count, N >>
             /\ 10 * emitted[i].pct[1] >= min_percentage * emitted[i].pct[2]
       /\ pc = "done" =>
             /\ Len(emitted) = Cardinality(PassingIndexes)
             /\ \A j \in PassingIndexes :
                   \E i \in 1..Len(emitted) :
                      /\ emitted[i].count = color_counts[j].count
                      /\ \A c \in 1..3 :
                            emitted[i].rgb[c]
                               = color_counts[j].avg_color[c] \div color_counts[j].count

C3_Witness ==
    /\ Finished
    /\ Len(emitted) >= 1
    /\ Len(emitted) < Len(color_counts)

----------------------------------------------------------------------------
(* C4 *)

TiedPairs ==
    { p \in (1..Len(color_counts)) \X (1..Len(color_counts)) :
         p[1] < p[2] /\ color_counts[p[1]].count = color_counts[p[2]].count }

TiesAscendingByCentroid ==
    \A p \in TiedPairs :
       LexLeq(color_counts[p[1]].avg_color, color_counts[p[2]].avg_color)

TiesDescendingByCentroid ==
    \A p \in TiedPairs :
       LexLeq(color_counts[p[2]].avg_color, color_counts[p[1]].avg_color)

\* C4 as stated: clusters of equal count are ranked by their centroid values,
\* lexicographically on the channels (in one direction or the other), whatever
\* the order in which the labels were enumerated.
C4_TiesByCentroid ==
    Returned => TiesAscendingByCentroid \/ TiesDescendingByCentroid

\* C4 as amended: the ranked result is a rearrangement of the summaries in
\* non-increasing order of count in which clusters of equal count keep the
\* order in which their labels were enumerated during aggregation; the
\* centroid plays no part.
C4_TiesKeepEnumerationOrder ==
    Returned =>
       /\ Len(color_counts) = Len(results)
       /\ \A j \in 1..Len(results) :
             \E i \in 1..Len(color_counts) : color_counts[i] = results[j]
       /\ \A i \in 1..Len(color_counts) : \A j \in 1..Len(color_counts) :
             i < j => color_counts[i].count >= color_counts[j].count
       /\ \A p \in TiedPairs :
             PosInResults(color_counts[p[1]].label)
                < PosInResults(color_counts[p[2]].label)

C4_Witness ==
    /\ Returned
    /\ \E p \in TiedPairs :
          ~LexLeq(color_counts[p[1]].avg_color, color_counts[p[2]].avg_color)
    /\ \E p \in TiedPairs :
          ~LexLeq(color_counts[p[2]].avg_color, color_counts[p[1]].avg_color)

----------------------------------------------------------------------------
(* C5 *)

\* C5: when eps <= 0 or min_samples < 1 the run raises before any clustering
\* work: no label is ever assigned, no summary computed, no card emitted, and
\* the only thing rendered is the error of the exception.
C5_InvalidParamsRaiseFirst ==
    (eps <= 0 \/ min_samples < 1) =>
       /\ pc \in {"start", "done"}
       /\ labels = << >>
       /\ results = << >>
       /\ color_counts = << >>
       /\ emitted = << >>
       /\ pc = "done" =>
             /\ Len(notices) = 1
             /\ notices[1].widget = "error"
             /\ notices[1].text = "Error: {str(e)}"
             /\ notices[1].detail \in { "eps must be in (0, inf)",
                                        "min_samples must be in [1, inf)" }

C5_Witness ==
    /\ eps > 0
    /\ min_samples < 1
    /\ pc = "done"
    /\ Len(notices) = 1

----------------------------------------------------------------------------
(* C6 *)

AllNoise == \A i \in 1..N : labels[i] = -1

AllBelowMin ==
    /\ color_counts # << >>
    /\ \A j \in 1..Len(color_counts) : ~Passes(color_counts[j])

\* x is what the handler of line 128 renders for an exception.
RendersException(x) == x.widget = "error" /\ x.text = "Error: {str(e)}"

\* C6: with valid parameters a run in which no cluster survives (every point
\* is noise, or every cluster is below min_percentage) ends normally with no
\* card emitted, and what it renders last is never what an exception renders.
C6_EmptyResultIsNotAnError ==
    (Finished /\ (AllNoise \/ AllBelowMin)) =>
       /\ emitted = << >>
       /\ notices # << >>
       /\ \A j \in 1..Len(notices) : ~RendersException(notices[j])
       /\ AllNoise => Last(notices).text = "No clusters found. Try lowering Min Samples."
       /\ AllBelowMin => Last(notices).widget = "warning"

C6_Witness ==
    /\ Finished
    /\ AllBelowMin
    /\ emitted = << >>

----------------------------------------------------------------------------
(* C7 *)

\* The points within eps of a core point of cluster k that carry the id of an
\* earlier cluster; cores is the set of core points.
ClaimedEarlier(cores, k) ==
    { j \in 1..N :
         /\ labels[j] # -1
         /\ labels[j] < k
         /\ \E i \in cores : labels[i] = k /\ Near(i, j) }

\* C7 as stated: every cluster has at least min_samples points.
C7_CountAtLeastMinSamples ==
    Fitted => \A k \in ClusterIds : Cardinality(Members(k)) >= min_samples

\* C7 as amended: every cluster has at least one point and holds a core point;
\* its count plus the number of points within eps of its core points that an
\* earlier cluster had already claimed is at least min_samples; the first
\* cluster (id 0), which no earlier cluster can rob, has at least min_samples
\* points.
C7_CountPlusClaimedAtLeastMinSamples ==
    Fitted =>
       LET cores == CoreSet
       IN \A k \in ClusterIds :
             /\ Cardinality(Members(k)) >= 1
             /\ \E i \in cores : labels[i] = k
             /\ Cardinality(Members(k)) + Cardinality(ClaimedEarlier(cores, k))
                   >= min_samples
             /\ k = 0 => Cardinality(Members(k)) >= min_samples

C7_Witness ==
    /\ Fitted
    /\ \E k \in ClusterIds :
          /\ Cardinality(Members(k)) < min_samples
          /\ ClaimedEarlier(CoreSet, k) # {}

----------------------------------------------------------------------------
(* C8 *)

\* C8: two core points carry the same label exactly when a chain of core
\* points, each within eps of the next, links them.  The chain relation is
\* defined on the points alone, so the partition of the core points is the
\* same under every ordering of the input.
C8_CorePartitionIsChainConnectivity ==
    Fitted =>
       LET cores == CoreSet
           chain == [ i \in cores |-> ChainReach(cores, {i}) ]
       IN \A i \in cores :
             /\ labels[i] # -1
             /\ \A j \in cores : (labels[i] = labels[j]) <=> (j \in chain[i])

C8_Witness ==
    /\ Fitted
    /\ \E i \in CoreSet : \E j \in CoreSet : ~Near(i, j) /\ labels[i] = labels[j]
    /\ \E i \in 1..N : ~Core(i) /\ labels[i] # -1

----------------------------------------------------------------------------
(* C9 *)

\* C9: when clustering has finished a point is noise iff it is no core point
\* and no core point lies within eps of it.
C9_NoiseIffUnreachable ==
    Fitted =>
       LET cores == CoreSet
       IN \A i \in 1..N :
             (labels[i] = -1) <=> (i \notin cores /\ ~\E j \in cores : Near(i, j))

C9_Witness ==
    /\ Fitted
    /\ \E i \in 1..N : ~Core(i) /\ labels[i] # -1
    /\ \E i \in 1..N : Core(i) /\ \E j \in 1..N : ~Near(i, j)

----------------------------------------------------------------------------
(* C10 *)

CoreLabelsNear(cores, b) == { labels[j] : j \in { i \in cores : Near(i, b) } }

\* A cluster id, once assigned, is kept by the step.
KeepsAssignedIds ==
    \A p \in 1..Len(labels) : labels[p] # -1 => labels'[p] = labels[p]

\* A border point carries the smallest id among the clusters of the core
\* points within eps of it.
BorderHasSmallestId ==
    Fitted =>
       LET cores == CoreSet
       IN \A b \in (1..N) \ cores :
             LET ids == CoreLabelsNear(cores, b)
             IN ids # {} => (labels[b] \in ids /\ \A k \in ids : labels[b] <= k)

\* C10: no step changes a cluster id that has been assigned, and a border
\* point within eps of core points of different clusters ends with the id of
\* the cluster that reached it first, the smallest of them.
C10_FirstAssignmentWins == [][KeepsAssignedIds]_vars /\ []BorderHasSmallestId

C10_Witness ==
    /\ Fitted
    /\ \E b \in 1..N :
          /\ ~Core(b)
          /\ Cardinality(CoreLabelsNear(CoreSet, b)) >= 2

====
